---- MODULE Spec2Model ----
(***************************************************************************)
(* Model of src/src/services/openai.ts: the module-level RateLimiter, the  *)
(* response validation of one attempt, and the retry loop of planTasks.    *)
(* Time is the value of Date.now() in milliseconds; every caller is one    *)
(* invocation of planTasks running on the single JavaScript event loop, so *)
(* an action is the code that runs between two awaits.                     *)
(***************************************************************************)
EXTENDS Integers, Sequences, FiniteSets, TLC

VARIABLES
    now,         \* Date.now()
    requests,    \* RateLimiter.requests
    recorded,    \* history: the last limit + 1 timestamps pushed onto requests, in push order
    pc,          \* per caller: where the planTasks invocation is suspended
    tasks,       \* per caller: the argument of planTasks
    attempt,     \* per caller: the loop variable of planTasks
    wake,        \* per caller: the time its pending setTimeout is due (or the model call began)
    lastError,   \* per caller: the variable lastError of planTasks
    lastReply,   \* history, per caller: what model.generateContent did in its latest attempt
    outcome,     \* per caller: how the promise returned by planTasks settled
    modelCalls,  \* history, per caller: calls of model.generateContent
    slotsTaken,  \* history, per caller: timestamps it pushed
    delays,      \* history, per caller: the arguments of sleep(), in order
    slotWaits,   \* history, per caller: the waitTime of each suspension in waitForSlot
    lateSteps,   \* history: how often the clock moved past a due timer or a running model call
    clientCalls, \* history, per client: the calls of waitForSlot it has begun
    vIn,         \* validation harness: the raw model output under test
    vOut,        \* validation harness: what one attempt made of vIn
    plannerTasks,   \* TaskPlanner: the number of tasks in the list (state tasks)
    plannerError,   \* TaskPlanner: state error, "null" or which message it holds
    retryCount,     \* TaskPlanner: state retryCount
    mutations,      \* TaskPlanner: the planTasks calls of planMutation still in flight
    manualRetries   \* history: calls started by handleRetry since retryCount was last reset

uiVars == <<plannerTasks, plannerError, retryCount, mutations, manualRetries>>

vars == <<now, requests, recorded, pc, tasks, attempt, wake, lastError, lastReply, outcome,
          modelCalls, slotsTaken, delays, slotWaits, lateSteps, clientCalls, vIn, vOut, uiVars>>

pipeVars == <<now, requests, recorded, pc, tasks, attempt, wake, lastError, lastReply, outcome,
              modelCalls, slotsTaken, delays, slotWaits, lateSteps, clientCalls>>

-----------------------------------------------------------------------------
(* Program constants *)

limit == 3

windowMs == 60000

\* faulty variant: one retry more
maxRetries_Four == 3 + 1

maxRetries == 3

baseDelay == 1000

\* faulty variant: one more manual retry
MAX_RETRIES_Four == 3 + 1

\* const MAX_RETRIES = 3 (Header.tsx)
MAX_RETRIES == 3

-----------------------------------------------------------------------------
(* Bounds of the model *)

\* The clock stops moving between calls after this many quanta.
MaxTicks == 66

\* How often the clock moves on while a timer is due or a model call is running:
\* the timer callbacks that run late and the model calls that take time.
MaxLateSteps == 2

\* Longest schedule array of a model response in the validation harness.
MaxItems == 3

\* The clock advances in steps of the shortest timer of the program.
Quantum == baseDelay

MaxTime == MaxTicks * Quantum

\* How far the clock may move while no call is pending.
IdleGaps == {windowMs \div 2}

\* The invocation of planTasks that is followed through all its attempts.
Callers == {"c1"}

\* Another invocation of planTasks, followed only through its use of the shared
\* rateLimiter: it settles after one attempt, and so calls waitForSlot once.
Clients == {"o1"}

Procs == Callers \cup Clients

\* How many such invocations follow each other.
MaxClientCalls == 2

\* planTasks calls of the component in flight together
MaxInFlight == 2

\* tasks in the component's list
MaxPlannerTasks == 1

-----------------------------------------------------------------------------
(* Values.  A JavaScript string is the sequence of its characters; a JSON   *)
(* value is a record tagged with its type in field t.                       *)

Digits == <<"0", "1", "2", "3", "4", "5", "6", "7", "8", "9">>

IsDigit(ch) == \E i \in 1..10 : Digits[i] = ch

DigitValue(ch) == (CHOOSE i \in 1..10 : Digits[i] = ch) - 1

Undefined == [t |-> "undefined"]

JsonNull == [t |-> "null"]

JsonBoolean == [t |-> "boolean"]

JsonNumber == [t |-> "number"]

Str(chars) == [t |-> "string", s |-> chars]

Obj(task, time, reason) == [t |-> "object", task |-> task, time |-> time, reason |-> reason]

\* !v for the values a schedule item's field can hold
Falsy(v) == v.t \in {"undefined", "null"} \/ (v.t = "string" /\ v.s = <<>>)

\* new GeminiError(message, code, isRetryable = true)
GeminiError(code, retryable) == [cls |-> "GeminiError", code |-> code, isRetryable |-> retryable]

\* Any thrown value that is not a GeminiError (TypeError, SyntaxError, a transport
\* error); reading its isRetryable gives undefined, which is falsy.
PlainError == [cls |-> "Error", code |-> "none", isRetryable |-> FALSE]

-----------------------------------------------------------------------------
(* convertTo12Hour and the helpers of the validation *)

\* Number(s) for a string of decimal digits
RECURSIVE Number(_)
Number(s) ==
    IF s = <<>> THEN 0
    ELSE Number(SubSeq(s, 1, Len(s) - 1)) * 10 + DigitValue(s[Len(s)])

\* n.toString() for n >= 0
RECURSIVE NumToString(_)
NumToString(n) ==
    IF n < 10 THEN <<Digits[n + 1]>>
    ELSE NumToString(n \div 10) \o <<Digits[(n % 10) + 1]>>

\* s.padStart(2, '0') for a non-empty s
PadStart2(s) == IF Len(s) >= 2 THEN s ELSE <<"0">> \o s

\* s.split(':')
RECURSIVE SplitColon(_)
SplitColon(s) ==
    LET colons == {i \in 1..Len(s) : s[i] = ":"} IN
    IF colons = {} THEN <<s>>
    ELSE LET i == CHOOSE j \in colons : \A k \in colons : j <= k
         IN <<SubSeq(s, 1, i - 1)>> \o SplitColon(SubSeq(s, i + 1, Len(s)))

\* faulty variant: 2[0-4] for 2[0-3]
HourMatches_24(h) ==
    \/ Len(h) = 1 /\ IsDigit(h[1])
    \/ Len(h) = 2 /\ h[1] \in {"0", "1"} /\ IsDigit(h[2])
    \/ Len(h) = 2 /\ h[1] = "2" /\ h[2] \in {"0", "1", "2", "3", "4"}

\* ^([01]?[0-9]|2[0-3])
HourMatches(h) ==
    \/ Len(h) = 1 /\ IsDigit(h[1])
    \/ Len(h) = 2 /\ h[1] \in {"0", "1"} /\ IsDigit(h[2])
    \/ Len(h) = 2 /\ h[1] = "2" /\ h[2] \in {"0", "1", "2", "3"}

\* timeRegex.test(s) with timeRegex = /^([01]?[0-9]|2[0-3]):[0-5][0-9]$/
timeRegexTest(s) ==
    \E n \in {1, 2} :
        /\ Len(s) = n + 3
        /\ HourMatches(SubSeq(s, 1, n))
        /\ s[n + 1] = ":"
        /\ s[n + 2] \in {"0", "1", "2", "3", "4", "5"}
        /\ IsDigit(s[n + 3])

Period(hours) == IF hours >= 12 THEN <<"P", "M">> ELSE <<"A", "M">>

\* faulty variant: hours % 12 without || 12
Hours12_NoFallback(hours) == hours % 12

\* hours % 12 || 12
Hours12(hours) == IF hours % 12 = 0 THEN 12 ELSE hours % 12

convertTo12Hour(time24) ==
    LET parts   == SplitColon(time24)
        hours   == Number(parts[1])
        minutes == Number(parts[2])
    IN NumToString(Hours12(hours)) \o <<":">> \o PadStart2(NumToString(minutes))
           \o <<" ">> \o Period(hours)

\* faulty variant: the operands of the subtraction swapped
Compare_Descending(a, b) ==
    LET pa == SplitColon(a.sortTime)
        pb == SplitColon(b.sortTime)
    IN (Number(pb[1]) * 60 + Number(pb[2])) - (Number(pa[1]) * 60 + Number(pa[2]))

\* the comparator of validatedSchedule.sort
Compare(a, b) ==
    LET pa == SplitColon(a.sortTime)
        pb == SplitColon(b.sortTime)
    IN (Number(pa[1]) * 60 + Number(pa[2])) - (Number(pb[1]) * 60 + Number(pb[2]))

\* Array.prototype.sort is stable: x goes behind every element that does not
\* compare greater than it.
Insert(sorted, x) ==
    LET n == Cardinality({i \in 1..Len(sorted) : Compare(sorted[i], x) <= 0})
    IN SubSeq(sorted, 1, n) \o <<x>> \o SubSeq(sorted, n + 1, Len(sorted))

RECURSIVE Sort(_)
Sort(seq) ==
    IF seq = <<>> THEN <<>>
    ELSE Insert(Sort(SubSeq(seq, 1, Len(seq) - 1)), seq[Len(seq)])

\* ({ sortTime, ...rest }) => rest
DropSortTime(e) == [task |-> e.task, time |-> e.time, reason |-> e.reason]

-----------------------------------------------------------------------------
(* One attempt's handling of the model's answer.  A result is               *)
(* [ok |-> TRUE, value |-> v] or [ok |-> FALSE, error |-> e].               *)

Return(v) == [ok |-> TRUE, value |-> v]

Throw(e) == [ok |-> FALSE, error |-> e]

\* the callback of parsedResponse.schedule.map
ValidateItem(item) ==
    IF item.t = "null" THEN Throw(PlainError)   \* TypeError: item.task of null
    ELSE IF Falsy(item.task) \/ Falsy(item.time) \/ Falsy(item.reason)
    THEN Throw(GeminiError("INVALID_FORMAT", TRUE))
    ELSE IF ~timeRegexTest(item.time.s)
    THEN Throw(GeminiError("INVALID_FORMAT", TRUE))
    ELSE Return([task |-> item.task.s, time |-> convertTo12Hour(item.time.s),
                 reason |-> item.reason.s, sortTime |-> item.time.s])

\* parsedResponse.schedule.map(...): the first item that throws ends the map
MapItems(items) ==
    LET bad == {i \in 1..Len(items) : ~ValidateItem(items[i]).ok} IN
    IF bad = {} THEN Return([i \in 1..Len(items) |-> ValidateItem(items[i]).value])
    ELSE ValidateItem(items[CHOOSE i \in bad : \A j \in bad : i <= j])

\* JSON.parse of the cleaned text
JsonParse(text) ==
    IF text.kind = "json" THEN Return(text.value) ELSE Throw(PlainError)

\* response.replace(/```json/g, '').replace(/```/g, '').trim()
Clean(response) ==
    IF response.kind = "json" THEN [response EXCEPT !.fenced = FALSE]
    ELSE IF response.kind = "blank" THEN [kind |-> "empty"]
    ELSE response

\* the body of the inner try block
ParseAndValidate(response) ==
    LET parsed == JsonParse(Clean(response)) IN
    IF ~parsed.ok THEN parsed
    ELSE LET v == parsed.value IN
         IF v.t = "null" THEN Throw(PlainError)   \* TypeError: schedule of null
         ELSE IF v.t # "object" \/ v.schedule.t # "array"
         THEN Throw(GeminiError("INVALID_FORMAT", TRUE))
         ELSE LET mapped == MapItems(v.schedule.items) IN
              IF ~mapped.ok THEN mapped
              ELSE LET sorted == Sort(mapped.value)
                   IN Return([i \in 1..Len(sorted) |-> DropSortTime(sorted[i])])

\* faulty variant: no inner catch
InnerTry_Uncaught(response) == ParseAndValidate(response)

\* the inner catch: a GeminiError passes, anything else becomes PARSE_ERROR
InnerTry(response) ==
    LET r == ParseAndValidate(response) IN
    IF r.ok \/ r.error.cls = "GeminiError" THEN r
    ELSE Throw(GeminiError("PARSE_ERROR", TRUE))

\* faulty variant: if (response) for if (!response)
RunAttempt_Inverted(reply) ==
    IF reply.kind = "throw" THEN Throw(reply.error)
    ELSE IF reply.text.kind # "empty" THEN Throw(GeminiError("NO_RESPONSE", TRUE))
    ELSE InnerTry(reply.text)

\* what the try block of one attempt does once model.generateContent has settled:
\* reply is [kind |-> "throw", error |-> e] or [kind |-> "text", text |-> response]
RunAttempt(reply) ==
    IF reply.kind = "throw" THEN Throw(reply.error)
    ELSE IF reply.text.kind = "empty" THEN Throw(GeminiError("NO_RESPONSE", TRUE))
    ELSE InnerTry(reply.text)

-----------------------------------------------------------------------------
(* The inputs *)

C(a, b, c, d, e) == <<a, b, c, d, e>>

GoodItem(task, time) == Obj(Str(<<task>>), Str(time), Str(<<"r">>))

\* schedule entries the model may send back: valid ones, two of them at the same
\* time of day, and ones that break a rule of the validation
Items ==
    { GoodItem("A", C("1", "4", ":", "3", "0")), GoodItem("B", C("0", "6", ":", "0", "0")),
      GoodItem("A", C("0", "9", ":", "1", "5")), GoodItem("B", <<"9", ":", "1", "5">>),
      GoodItem("B", C("2", "3", ":", "5", "9")),
      GoodItem("A", C("2", "4", ":", "1", "5")), GoodItem("A", C("2", "5", ":", "0", "0")),
      GoodItem("A", C("0", "9", ":", "6", "0")), GoodItem("A", <<"0", "9", "0", "0">>),
      Obj(Undefined, Str(C("0", "9", ":", "0", "0")), Str(<<"r">>)),
      Obj(Str(<<"A">>), Undefined, Str(<<"r">>)),
      Obj(Str(<<"A">>), Str(<<>>), Str(<<"r">>)),
      Obj(Str(<<"A">>), Str(C("0", "9", ":", "0", "0")), Str(<<>>)),
      JsonNull }

RECURSIVE SeqsUpTo(_, _)
SeqsUpTo(S, n) ==
    IF n = 0 THEN {<<>>}
    ELSE LET shorter == SeqsUpTo(S, n - 1)
         IN shorter \cup {Append(q, x) : q \in {r \in shorter : Len(r) = n - 1}, x \in S}

Json(v) == [kind |-> "json", fenced |-> FALSE, value |-> v]

Schedule(items) == [t |-> "object", schedule |-> [t |-> "array", items |-> items]]

\* every raw text the validation harness tries
Responses ==
    { [kind |-> "empty"], [kind |-> "blank"], [kind |-> "garbage"] }
    \cup { Json(v) : v \in { JsonNull, JsonNumber, JsonBoolean, Str(<<"x">>), Str(<<>>),
                             [t |-> "array"],
                             [t |-> "object", schedule |-> Undefined],
                             [t |-> "object", schedule |-> JsonNull],
                             [t |-> "object", schedule |-> Str(<<"x">>)] } }
    \cup { [kind |-> "json", fenced |-> f, value |-> Schedule(q)] :
               f \in BOOLEAN, q \in SeqsUpTo(Items, MaxItems) }

UnsortedSchedule ==
    Schedule(<<GoodItem("A", C("1", "4", ":", "3", "0")), GoodItem("B", C("0", "6", ":", "0", "0")),
               GoodItem("A", C("0", "9", ":", "1", "5"))>>)

\* what model.generateContent may do in the pipeline: throw an unclassified error,
\* throw a classified error that is marked non-retryable, or answer with a text
Replies ==
    { [kind |-> "throw", error |-> PlainError],
      [kind |-> "throw", error |-> GeminiError("EXTERNAL", FALSE)],
      [kind |-> "text", text |-> [kind |-> "empty"]],
      [kind |-> "text", text |-> Json(UnsortedSchedule)] }

\* the task lists planTasks is called with
TaskLists ==
    { <<>>, <<[description |-> <<"A">>]>>, <<[description |-> <<"A">>], [description |-> <<"B">>]>> }

-----------------------------------------------------------------------------
(* RateLimiter.waitForSlot *)

\* faulty variant: <= for <
Evict_Inclusive(reqs, t) == SelectSeq(reqs, LAMBDA time : t - time <= windowMs)

\* faulty variant: the filter keeps what it should drop
Evict_Inverted(reqs, t) == SelectSeq(reqs, LAMBDA time : t - time >= windowMs)

\* this.requests.filter(time => now - time < this.windowMs)
Evict(reqs, t) == SelectSeq(reqs, LAMBDA time : t - time < windowMs)

\* faulty variant: > for >=
AtCapacity_Above(reqs) == Len(reqs) > limit

\* this.requests.length >= this.limit
AtCapacity(reqs) == Len(reqs) >= limit

\* faulty variant: half the time until the oldest timestamp leaves the window
WaitTime_Half(reqs, t) == (windowMs - (t - reqs[1])) \div 2

\* this.windowMs - (now - oldestRequest)
WaitTime(reqs, t) == windowMs - (t - reqs[1])

LastPushes(h) == IF Len(h) <= limit + 1 THEN h ELSE SubSeq(h, Len(h) - limit, Len(h))

\* faulty variant: a caller that was suspended takes its slot on waking, without
\* the capacity check
waitForSlot_Assumed(c) ==
    LET kept == Evict(requests, now) IN
    IF AtCapacity(kept) /\ pc[c] # "waitSlot"
    THEN /\ requests' = kept
         /\ wake' = [wake EXCEPT ![c] = now + WaitTime(kept, now)]
         /\ slotWaits' = [slotWaits EXCEPT ![c] = Append(@, WaitTime(kept, now))]
         /\ pc' = [pc EXCEPT ![c] = "waitSlot"]
         /\ UNCHANGED <<recorded, slotsTaken>>
    ELSE /\ requests' = Append(kept, now)
         /\ recorded' = LastPushes(Append(recorded, now))
         /\ slotsTaken' = [slotsTaken EXCEPT ![c] = @ + 1]
         /\ pc' = [pc EXCEPT ![c] = "acquired"]
         /\ UNCHANGED <<wake, slotWaits>>

\* faulty variant: unshift for push
waitForSlot_Unshift(c) ==
    LET kept == Evict(requests, now) IN
    IF AtCapacity(kept)
    THEN /\ requests' = kept
         /\ wake' = [wake EXCEPT ![c] = now + WaitTime(kept, now)]
         /\ slotWaits' = [slotWaits EXCEPT ![c] = Append(@, WaitTime(kept, now))]
         /\ pc' = [pc EXCEPT ![c] = "waitSlot"]
         /\ UNCHANGED <<recorded, slotsTaken>>
    ELSE /\ requests' = <<now>> \o kept
         /\ recorded' = LastPushes(Append(recorded, now))
         /\ slotsTaken' = [slotsTaken EXCEPT ![c] = @ + 1]
         /\ pc' = [pc EXCEPT ![c] = "acquired"]
         /\ UNCHANGED <<wake, slotWaits>>

\* One pass of waitForSlot by caller c, from its first line to its await or its end.
waitForSlot(c) ==
    LET kept == Evict(requests, now) IN
    IF AtCapacity(kept)
    THEN /\ requests' = kept
         /\ wake' = [wake EXCEPT ![c] = now + WaitTime(kept, now)]
         /\ slotWaits' = [slotWaits EXCEPT ![c] = Append(@, WaitTime(kept, now))]
         /\ pc' = [pc EXCEPT ![c] = "waitSlot"]
         /\ UNCHANGED <<recorded, slotsTaken>>
    ELSE /\ requests' = Append(kept, now)
         /\ recorded' = LastPushes(Append(recorded, now))
         /\ slotsTaken' = [slotsTaken EXCEPT ![c] = @ + 1]
         /\ pc' = [pc EXCEPT ![c] = "acquired"]
         /\ UNCHANGED <<wake, slotWaits>>

-----------------------------------------------------------------------------
(* planTasks *)

\* faulty variant: !tasks, which no array satisfies
NoTasks_Truthy(ts) == FALSE

\* !tasks.length
NoTasks(ts) == Len(ts) = 0

\* faulty variant: the flag of a GeminiError is ignored
isRetryableError_Always(error) == TRUE

isRetryableError(error) ==
    IF error.cls = "GeminiError" THEN error.isRetryable ELSE TRUE

\* attempt <= maxRetries, the condition of the for loop
LoopCondition(a) == a <= maxRetries

\* faulty variant: > for ===
LastAttempt_Above(a) == a > maxRetries

\* attempt === maxRetries
LastAttempt(a) == a = maxRetries

\* faulty variant: n + 1 for 2^n
Pow2_Linear(n) == n + 1

\* 2^n
RECURSIVE Pow2(_)
Pow2(n) == IF n = 0 THEN 1 ELSE 2 * Pow2(n - 1)

\* faulty variant: a linear backoff
BackoffDelay_Linear(a) == baseDelay * (a + 1)

\* baseDelay * Math.pow(2, attempt)
BackoffDelay(a) == baseDelay * Pow2(a)

\* what the outer catch throws when it gives up
Surfaced(error) ==
    IF error.cls = "GeminiError" THEN error ELSE GeminiError("UNKNOWN_ERROR", TRUE)

Pending == [state |-> "pending"]

Resolved(schedule) == [state |-> "resolved", schedule |-> schedule]

Rejected(error) == [state |-> "rejected", error |-> error]

NoError == [cls |-> "null", code |-> "none", isRetryable |-> FALSE]

\* planTasks(ts) is called: the guard, and with tasks the first pass of waitForSlot
planTasks(c, ts) ==
    /\ c \in Callers
    /\ pc[c] = "idle"
    /\ tasks' = [tasks EXCEPT ![c] = ts]
    /\ IF NoTasks(ts)
       THEN /\ outcome' = [outcome EXCEPT ![c] = Rejected(GeminiError("NO_TASKS", FALSE))]
            /\ pc' = [pc EXCEPT ![c] = "done"]
            /\ UNCHANGED <<requests, recorded, wake, slotsTaken, slotWaits>>
       ELSE /\ waitForSlot(c)
            /\ UNCHANGED outcome
    /\ UNCHANGED <<now, attempt, lastError, lastReply, modelCalls, delays, lateSteps, clientCalls, vIn, vOut, uiVars>>

\* another invocation reaches its await rateLimiter.waitForSlot()
ClientEnters(o) ==
    /\ pc[o] = "idle"
    /\ clientCalls[o] < MaxClientCalls
    /\ clientCalls' = [clientCalls EXCEPT ![o] = @ + 1]
    /\ waitForSlot(o)
    /\ UNCHANGED <<now, tasks, attempt, lastError, lastReply, outcome, modelCalls, delays, lateSteps,
                   vIn, vOut, uiVars>>

\* its waitForSlot has resolved
ClientLeaves(o) ==
    /\ pc[o] = "acquired"
    /\ pc' = [pc EXCEPT ![o] = "idle"]
    /\ UNCHANGED <<now, requests, recorded, tasks, attempt, wake, lastError, lastReply, outcome,
                   modelCalls, slotsTaken, delays, slotWaits, lateSteps, clientCalls, vIn, vOut, uiVars>>

\* faulty variant: the timer's callback does not resolve the promise
SlotTimer_Unresolved(c) ==
    /\ pc[c] = "waitSlot"
    /\ now >= wake[c]
    /\ UNCHANGED vars

\* the timer of a suspended waitForSlot fires: return this.waitForSlot()
SlotTimer(c) ==
    /\ pc[c] = "waitSlot"
    /\ now >= wake[c]
    /\ waitForSlot(c)
    /\ UNCHANGED <<now, tasks, attempt, lastError, lastReply, outcome, modelCalls, delays, lateSteps, clientCalls, vIn, vOut, uiVars>>

\* waitForSlot has resolved: planTasks goes on to model.generateContent(prompt)
CallModel(c) ==
    /\ c \in Callers
    /\ pc[c] = "acquired"
    /\ pc' = [pc EXCEPT ![c] = "calling"]
    /\ modelCalls' = [modelCalls EXCEPT ![c] = @ + 1]
    /\ wake' = [wake EXCEPT ![c] = now]
    /\ UNCHANGED <<now, requests, recorded, tasks, attempt, lastError, lastReply, outcome,
                   slotsTaken, delays, slotWaits, lateSteps, clientCalls, vIn, vOut, uiVars>>

\* model.generateContent settles: the rest of the try block and the outer catch
ModelSettles(c, reply) ==
    /\ pc[c] = "calling"
    /\ lastReply' = [lastReply EXCEPT ![c] = reply]
    /\ LET r == RunAttempt(reply) IN
       IF r.ok
       THEN /\ outcome' = [outcome EXCEPT ![c] = Resolved(r.value)]
            /\ pc' = [pc EXCEPT ![c] = "done"]
            /\ UNCHANGED <<lastError, delays, wake>>
       ELSE /\ lastError' = [lastError EXCEPT ![c] = r.error]
            /\ IF ~isRetryableError(r.error) \/ LastAttempt(attempt[c])
               THEN /\ outcome' = [outcome EXCEPT ![c] = Rejected(Surfaced(r.error))]
                    /\ pc' = [pc EXCEPT ![c] = "done"]
                    /\ UNCHANGED <<delays, wake>>
               ELSE /\ delays' = [delays EXCEPT ![c] = Append(@, BackoffDelay(attempt[c]))]
                    /\ wake' = [wake EXCEPT ![c] = now + BackoffDelay(attempt[c])]
                    /\ pc' = [pc EXCEPT ![c] = "backoff"]
                    /\ UNCHANGED outcome
    /\ UNCHANGED <<now, requests, recorded, tasks, attempt, modelCalls, slotsTaken,
                   slotWaits, lateSteps, clientCalls, vIn, vOut, uiVars>>

\* faulty variant: the next attempt goes on without waitForSlot
SleepTimer_NoSlot(c) ==
    /\ pc[c] = "backoff"
    /\ now >= wake[c]
    /\ attempt' = [attempt EXCEPT ![c] = @ + 1]
    /\ pc' = [pc EXCEPT ![c] = "acquired"]
    /\ UNCHANGED <<now, requests, recorded, tasks, wake, lastError, lastReply, outcome, modelCalls,
                   slotsTaken, delays, slotWaits, lateSteps, clientCalls, vIn, vOut, uiVars>>

\* the timer of sleep(delay) fires: attempt++, the loop condition, and either the
\* next attempt's first pass of waitForSlot or the throw behind the loop
SleepTimer(c) ==
    /\ pc[c] = "backoff"
    /\ now >= wake[c]
    /\ attempt' = [attempt EXCEPT ![c] = @ + 1]
    /\ IF LoopCondition(attempt[c] + 1)
       THEN /\ waitForSlot(c)
            /\ UNCHANGED outcome
       ELSE /\ outcome' = [outcome EXCEPT ![c] =
                             Rejected(IF lastError[c].cls = "null"
                                      THEN GeminiError("none", TRUE) ELSE lastError[c])]
            /\ pc' = [pc EXCEPT ![c] = "done"]
            /\ UNCHANGED <<requests, recorded, wake, slotsTaken, slotWaits>>
    /\ UNCHANGED <<now, tasks, lastError, lastReply, modelCalls, delays, lateSteps, clientCalls, vIn, vOut, uiVars>>

Suspended == {c \in Procs : pc[c] \in {"waitSlot", "backoff", "calling"}}

\* A due timer runs, and a model call settles, at most one quantum late.
Latest(c) == wake[c] + Quantum

\* the instants at which a suspended caller may be resumed
Instants == {wake[c] : c \in Suspended} \cup {Latest(c) : c \in Suspended}

\* The clock moves on to the next instant at which something can happen.
\* Microtasks run before the clock is read again, and no timer or model call
\* stays pending beyond its latest instant.
Advance(t) ==
    /\ t \in Instants
    /\ t > now
    /\ \A c \in Procs : pc[c] # "acquired"
    /\ \A c \in Suspended : t <= Latest(c)
    /\ IF \E c \in Suspended : wake[c] < t
       THEN lateSteps < MaxLateSteps /\ lateSteps' = lateSteps + 1
       ELSE lateSteps' = lateSteps
    /\ now' = t
    /\ UNCHANGED <<requests, recorded, pc, tasks, attempt, wake, lastError, lastReply, outcome,
                   modelCalls, slotsTaken, delays, slotWaits, clientCalls, vIn, vOut, uiVars>>

\* Nothing is pending and a call is still to come: the clock moves on by d.
Idle(d) ==
    /\ Suspended = {}
    /\ \A c \in Procs : pc[c] # "acquired"
    /\ \/ \E c \in Callers : pc[c] = "idle"
       \/ \E o \in Clients : clientCalls[o] < MaxClientCalls
    /\ requests # <<>>
    /\ now + d <= MaxTime
    /\ now' = now + d
    /\ UNCHANGED <<requests, recorded, pc, tasks, attempt, wake, lastError, lastReply, outcome,
                   modelCalls, slotsTaken, delays, slotWaits, lateSteps, clientCalls, vIn, vOut, uiVars>>

\* TaskPlanner as first rendered: the useState initial values, no mutation started
InitUI ==
    /\ plannerTasks = 0
    /\ plannerError = "null"
    /\ retryCount = 0
    /\ mutations = <<>>
    /\ manualRetries = 0

NoReply == [kind |-> "none"]

NoResult == [ok |-> FALSE, error |-> NoError]

Init ==
    /\ now = 0
    /\ requests = <<>>
    /\ recorded = <<>>
    /\ pc = [c \in Procs |-> "idle"]
    /\ tasks = [c \in Procs |-> <<>>]
    /\ attempt = [c \in Procs |-> 0]
    /\ wake = [c \in Procs |-> 0]
    /\ lastError = [c \in Procs |-> NoError]
    /\ lastReply = [c \in Procs |-> NoReply]
    /\ outcome = [c \in Procs |-> Pending]
    /\ modelCalls = [c \in Procs |-> 0]
    /\ slotsTaken = [c \in Procs |-> 0]
    /\ delays = [c \in Procs |-> <<>>]
    /\ slotWaits = [c \in Procs |-> <<>>]
    /\ clientCalls = [o \in Clients |-> 0]
    /\ lateSteps = 0
    /\ vIn = [kind |-> "empty"]
    /\ vOut = NoResult
    /\ InitUI

Next ==
    \/ \E c \in Callers, ts \in TaskLists : planTasks(c, ts)
    \/ \E o \in Clients : ClientEnters(o)
    \/ \E o \in Clients : ClientLeaves(o)
    \/ \E c \in Procs : SlotTimer(c)
    \/ \E c \in Callers : CallModel(c)
    \/ \E c \in Callers, reply \in Replies : ModelSettles(c, reply)
    \/ \E c \in Callers : SleepTimer(c)
    \/ \E t \in Instants : Advance(t)
    \/ \E d \in IdleGaps : Idle(d)

Spec == Init /\ [][Next]_vars

\* what the event loop does of its own accord: a due timer fires, a pending model
\* call settles, the continuation of a resolved promise runs, and time passes
Scheduled ==
    \/ \E c \in Procs : SlotTimer(c)
    \/ \E c \in Callers : CallModel(c)
    \/ \E c \in Callers, reply \in Replies : ModelSettles(c, reply)
    \/ \E c \in Callers : SleepTimer(c)
    \/ \E o \in Clients : ClientLeaves(o)
    \/ \E t \in Instants : Advance(t)

\* Spec with that scheduling: the event loop does not stop while it has something
\* to run.  Nothing obliges anybody to call planTasks.
FairSpec == Spec /\ WF_vars(Scheduled)

-----------------------------------------------------------------------------
(* The validation of one attempt on its own: the model answers with the text *)
(* vIn and the try block of the attempt runs on it.                          *)

InitValidate ==
    /\ now = 0
    /\ requests = <<>>
    /\ recorded = <<>>
    /\ pc = [c \in Procs |-> "idle"]
    /\ tasks = [c \in Procs |-> <<>>]
    /\ attempt = [c \in Procs |-> 0]
    /\ wake = [c \in Procs |-> 0]
    /\ lastError = [c \in Procs |-> NoError]
    /\ lastReply = [c \in Procs |-> NoReply]
    /\ outcome = [c \in Procs |-> Pending]
    /\ modelCalls = [c \in Procs |-> 0]
    /\ slotsTaken = [c \in Procs |-> 0]
    /\ delays = [c \in Procs |-> <<>>]
    /\ slotWaits = [c \in Procs |-> <<>>]
    /\ clientCalls = [o \in Clients |-> 0]
    /\ lateSteps = 0
    /\ vIn \in Responses
    /\ vOut = NoResult
    /\ InitUI

Validate ==
    /\ vOut = NoResult
    /\ vOut' = RunAttempt([kind |-> "text", text |-> vIn])
    /\ UNCHANGED <<pipeVars, vIn, uiVars>>

NextValidate == Validate

SpecValidate == InitValidate /\ [][NextValidate]_vars

-----------------------------------------------------------------------------
(* Properties of planTasks and of the rate limiter, checked under Spec *)

\* C1: a call of planTasks with an empty task list has rejected with the
\* GeminiError NO_TASKS, isRetryable false, as soon as it has begun: it has called
\* the model zero times, has run no pass of waitForSlot (it recorded no timestamp
\* and was never suspended there, so it left requests alone) and has slept no
\* backoff delay.
C1_EmptyTasksRejected ==
    \A c \in Callers :
        (pc[c] # "idle" /\ tasks[c] = <<>>) =>
            /\ pc[c] = "done"
            /\ outcome[c] = [state |-> "rejected",
                             error |-> [cls |-> "GeminiError", code |-> "NO_TASKS",
                                        isRetryable |-> FALSE]]
            /\ modelCalls[c] = 0
            /\ lastReply[c] = NoReply
            /\ slotsTaken[c] = 0
            /\ slotWaits[c] = <<>>
            /\ delays[c] = <<>>

\* an empty call has been made while the limiter held timestamps of other calls
C1_Witness ==
    \E c \in Callers : pc[c] = "done" /\ tasks[c] = <<>> /\ requests # <<>>

\* the timestamps of recorded that lie less than 60000 ms before the latest one,
\* the latest included
InWindowOfLatest ==
    {i \in 1..Len(recorded) : recorded[Len(recorded)] - recorded[i] < 60000}

\* C2: whenever a pass of waitForSlot has recorded a timestamp t, at most 3 of the
\* recorded timestamps, t included, are less than 60000 ms older than t; and
\* requests never holds more than 3 timestamps, so nobody recorded a call while
\* 3 timestamps remained after the eviction.
C2_RateLimitInvariant ==
    /\ Cardinality(InWindowOfLatest) <= 3
    /\ Len(requests) <= 3

\* a fourth call was recorded, with three calls in its window and one outside
C2_Witness ==
    /\ Len(recorded) = 4
    /\ Cardinality(InWindowOfLatest) = 3
    /\ \E c \in Procs : pc[c] = "acquired" /\ slotWaits[c] # <<>>

\* C3: a call recorded after 3 others is recorded at least 60000 ms after the
\* oldest of the 3 calls before it.
C3_FourthCallDelayed ==
    \A i \in 1..Len(recorded) : i > 3 => recorded[i] - recorded[i - 3] >= 60000

\* a caller that found the limiter full has waited and has now recorded its call
C3_Witness ==
    /\ Len(recorded) = 4
    /\ recorded[3] - recorded[1] < 60000
    /\ \E c \in Procs : pc[c] = "acquired" /\ slotWaits[c] # <<>> /\ recorded[4] = now

\* C4: one call of planTasks runs attempts 0..3 only and calls the model at most
\* once per attempt, hence at most 4 times.
C4_AtMostFourAttempts ==
    \A c \in Callers :
        /\ attempt[c] \in 0..3
        /\ modelCalls[c] <= attempt[c] + 1
        /\ modelCalls[c] <= 4

\* the fourth attempt has called the model
C4_Witness ==
    \E c \in Callers : modelCalls[c] = 4 /\ attempt[c] = 3

\* what planTasks resolves with when the model answers UnsortedSchedule
SortedSchedule ==
    <<[task |-> <<"B">>, time |-> <<"6", ":", "0", "0", " ", "A", "M">>, reason |-> <<"r">>],
      [task |-> <<"A">>, time |-> <<"9", ":", "1", "5", " ", "A", "M">>, reason |-> <<"r">>],
      [task |-> <<"A">>, time |-> <<"2", ":", "3", "0", " ", "P", "M">>, reason |-> <<"r">>]>>

\* planTasks resolved in its fourth attempt, after three failures that were retried
ResolvedInFourth(c) ==
    /\ pc[c] = "done"
    /\ outcome[c].state = "resolved"
    /\ attempt[c] = 3

\* C5 as stated: a call that resolves in its fourth attempt resolves with that
\* attempt's schedule and has waited 1000, 2000 and 4000 ms between its attempts
\* and nothing else.
C5_OnlyBackoffWaits ==
    \A c \in Callers :
        ResolvedInFourth(c) =>
            /\ outcome[c].schedule = SortedSchedule
            /\ delays[c] = <<1000, 2000, 4000>>
            /\ slotWaits[c] = <<>>

\* C5 as amended: a call that resolves in its fourth attempt resolves with that
\* attempt's schedule and has slept the backoff delays 1000, 2000 and 4000 ms
\* between its attempts; the waits of waitForSlot come on top of them.
C5_BackoffDelays ==
    \A c \in Callers :
        ResolvedInFourth(c) =>
            /\ lastReply[c] = [kind |-> "text", text |-> Json(UnsortedSchedule)]
            /\ outcome[c].schedule = SortedSchedule
            /\ delays[c] = <<1000, 2000, 4000>>

\* the fourth attempt succeeded after it was held back by the rate limiter
C5_Witness ==
    \E c \in Callers : ResolvedInFourth(c) /\ slotWaits[c] # <<>>

\* the latest attempt of c raised a GeminiError with isRetryable false
RaisedNonRetryable(c) ==
    /\ lastReply[c].kind = "throw"
    /\ lastReply[c].error.cls = "GeminiError"
    /\ ~lastReply[c].error.isRetryable

\* C6: when an attempt raises a GeminiError that is not retryable, planTasks has
\* rejected with that very error in the same step: the attempt is the last one,
\* with one slot and one model call per attempt begun and no backoff delay after
\* the failure.
C6_NonRetryableStops ==
    \A c \in Callers :
        RaisedNonRetryable(c) =>
            /\ pc[c] = "done"
            /\ outcome[c] = [state |-> "rejected", error |-> lastReply[c].error]
            /\ modelCalls[c] = attempt[c] + 1
            /\ slotsTaken[c] = attempt[c] + 1
            /\ Len(delays[c]) = attempt[c]

\* a non-retryable error ended the call in an attempt that was not the last
C6_Witness ==
    \E c \in Callers : RaisedNonRetryable(c) /\ pc[c] = "done" /\ attempt[c] = 1

\* C7: a call that is over has resolved, or has rejected with a GeminiError; one
\* that rejected after its attempt 3 failed did so with that attempt's error if
\* it is a GeminiError and with the GeminiError UNKNOWN_ERROR if not; and the loop
\* is never left through its condition: no backoff follows attempt 3 and attempt
\* never becomes 4.
C7_TwoOutcomes ==
    \A c \in Callers :
        /\ pc[c] = "done" =>
              \/ outcome[c].state = "resolved"
              \/ outcome[c].state = "rejected" /\ outcome[c].error.cls = "GeminiError"
        /\ pc[c] # "done" => outcome[c].state = "pending"
        /\ (pc[c] = "done" /\ outcome[c].state = "rejected" /\ lastReply[c] # NoReply
                /\ attempt[c] = 3) =>
              outcome[c].error =
                  IF lastError[c].cls = "GeminiError" THEN lastError[c]
                  ELSE [cls |-> "GeminiError", code |-> "UNKNOWN_ERROR", isRetryable |-> TRUE]
        /\ pc[c] = "backoff" => attempt[c] < 3
        /\ attempt[c] <= 3

\* the fourth attempt failed with an unclassified error
C7_Witness ==
    \E c \in Callers :
        /\ pc[c] = "done"
        /\ attempt[c] = 3
        /\ lastError[c].cls = "Error"
        /\ outcome[c].error.code = "UNKNOWN_ERROR"

\* the model answered the latest attempt of c with a valid schedule
AnsweredValid(c) == lastReply[c] = [kind |-> "text", text |-> Json(UnsortedSchedule)]

\* C8: when an attempt completes without error, planTasks has resolved with that
\* attempt's schedule in the same step; the attempt is the last one: one slot and
\* one model call per attempt begun, and no backoff delay after it.
C8_SuccessReturns ==
    \A c \in Callers :
        /\ AnsweredValid(c) =>
              /\ pc[c] = "done"
              /\ outcome[c] = [state |-> "resolved", schedule |-> SortedSchedule]
              /\ modelCalls[c] = attempt[c] + 1
              /\ slotsTaken[c] = attempt[c] + 1
              /\ Len(delays[c]) = attempt[c]
        /\ outcome[c].state = "resolved" => AnsweredValid(c)

\* the first attempt succeeded
C8_Witness ==
    \E c \in Callers : AnsweredValid(c) /\ pc[c] = "done" /\ attempt[c] = 0

\* the descriptions of the tasks a call was made with
Descriptions(ts) == {ts[j].description : j \in 1..Len(ts)}

\* C12 as stated: every entry of a schedule planTasks resolves with has as its
\* task the description of one of the tasks the call was made with.
C12_TasksFromInput ==
    \A c \in Callers :
        outcome[c].state = "resolved" =>
            \A i \in 1..Len(outcome[c].schedule) :
                outcome[c].schedule[i].task \in Descriptions(tasks[c])

\* the latest attempt of c failed with an error that counts as retryable, and the
\* call has not yet begun another attempt
FailedRetryable(c) ==
    /\ pc[c] \in {"backoff", "done"}
    /\ outcome[c].state # "resolved"
    /\ lastError[c] # NoError
    /\ isRetryableError(lastError[c])

\* C14 as stated: after attempt k fails with a retryable error the call sleeps
\* 1000 * 2^k ms, for k = 0, 1, 2 and 3: after the failure of attempt k its
\* delays so far are the first k + 1 of 1000, 2000, 4000, 8000.
C14_DelayAfterEveryFailure ==
    \A c \in Callers :
        FailedRetryable(c) =>
            delays[c] = SubSeq(<<1000, 2000, 4000, 8000>>, 1, attempt[c] + 1)

\* C14 as amended: after attempt k = 0, 1 or 2 fails with a retryable error the
\* call sleeps 1000 * 2^k ms (1000, 2000, 4000) before its next attempt; after
\* attempt 3 fails it sleeps no more and rejects, so no delay of 8000 ms occurs.
C14_BackoffAfterFirstThree ==
    \A c \in Callers :
        /\ FailedRetryable(c) =>
              IF attempt[c] < 3
              THEN /\ pc[c] = "backoff"
                   /\ outcome[c].state = "pending"
                   /\ delays[c] = SubSeq(<<1000, 2000, 4000>>, 1, attempt[c] + 1)
                   /\ wake[c] - now <= delays[c][attempt[c] + 1]
              ELSE /\ attempt[c] = 3
                   /\ pc[c] = "done"
                   /\ outcome[c].state = "rejected"
                   /\ delays[c] = <<1000, 2000, 4000>>
        /\ \A k \in 1..Len(delays[c]) : delays[c][k] # 8000

\* the fourth attempt failed with a retryable error and the call rejected at once
C14_Witness ==
    \E c \in Callers :
        /\ FailedRetryable(c)
        /\ attempt[c] = 3
        /\ outcome[c].state = "rejected"
        /\ delays[c] = <<1000, 2000, 4000>>

\* this step ran a pass of waitForSlot: somebody recorded a call or suspended
PassRan == \E c \in Procs : slotsTaken'[c] # slotsTaken[c] \/ slotWaits'[c] # slotWaits[c]

\* what the pass left in requests of the timestamps that were there before it
Remaining ==
    IF \E c \in Procs : slotsTaken'[c] # slotsTaken[c]
    THEN SubSeq(requests', 1, Len(requests') - 1)
    ELSE requests'

\* C16 as stated: a pass of waitForSlot drops from requests exactly the timestamps
\* ts with ts < now - 60000; a timestamp with ts = now - 60000 stays.
C16_KeepsAtWindowAge ==
    [][PassRan =>
          \E k \in 0..Len(requests) :
              /\ Remaining = SubSeq(requests, k + 1, Len(requests))
              /\ \A i \in 1..Len(requests) : i <= k <=> requests[i] < now - 60000]_vars

\* C16 as amended: a pass of waitForSlot drops from requests exactly the timestamps
\* ts with ts <= now - 60000; a timestamp with ts = now - 60000 is dropped and
\* counts against the limit no more.
C16_EvictsAtWindowAge ==
    [][PassRan =>
          \E k \in 0..Len(requests) :
              /\ Remaining = SubSeq(requests, k + 1, Len(requests))
              /\ \A i \in 1..Len(requests) : i <= k <=> requests[i] <= now - 60000]_vars

\* a call was recorded exactly 60000 ms after the call three before it, whose
\* timestamp that pass dropped
C16_Witness ==
    /\ Len(recorded) = 4
    /\ recorded[4] = now
    /\ recorded[4] - recorded[1] = 60000
    /\ requests = SubSeq(recorded, 2, 4)

\* the timestamps in requests that are less than 60000 ms old
Live == {i \in 1..Len(requests) : now - requests[i] < 60000}

\* C17: with callers interleaved at their awaits, no 60000 ms window that begins
\* at a recorded call holds more than 3 recorded calls; a step records at most one
\* call, for one caller, and only when fewer than 3 live timestamps were there, so
\* of two waiters resumed at the same instant the second is checked against the
\* timestamp of the first.
C17_ConcurrentCallersSafe ==
    /\ [](\A i \in 1..Len(recorded) :
             Cardinality({j \in 1..Len(recorded) :
                             recorded[j] >= recorded[i] /\ recorded[j] - recorded[i] < 60000}) <= 3)
    /\ [][\A c \in Procs :
             slotsTaken'[c] # slotsTaken[c] =>
                 /\ slotsTaken'[c] = slotsTaken[c] + 1
                 /\ \A d \in Procs \ {c} : slotsTaken'[d] = slotsTaken[d]
                 /\ Cardinality(Live) < 3
                 /\ Len(requests') <= 3]_vars

\* two waiters were due at the same instant with one slot free: one has recorded
\* its call at that instant and the other is suspended again
C17_Witness ==
    \E c \in Procs, d \in Procs :
        /\ c # d
        /\ pc[c] = "acquired"
        /\ slotWaits[c] # <<>>
        /\ recorded # <<>>
        /\ recorded[Len(recorded)] = now
        /\ pc[d] = "waitSlot"
        /\ Len(slotWaits[d]) >= 2
        /\ wake[d] > now
        /\ Len(requests) = 3

\* C18: a call never has more model invocations than recorded timestamps; the
\* model is invoked only by a caller whose waitForSlot has just recorded, at this
\* instant, the timestamp of this attempt; a failed attempt keeps its slot; and
\* at an invocation at most 3 recorded timestamps, its own included, lie in the
\* 60000 ms up to now.
C18_InvocationAfterSlot ==
    /\ [](\A c \in Callers :
             /\ modelCalls[c] <= slotsTaken[c]
             /\ slotsTaken[c] <= modelCalls[c] + 1
             /\ pc[c] \in {"calling", "backoff", "done"} => modelCalls[c] = slotsTaken[c]
             /\ pc[c] = "backoff" => slotsTaken[c] = attempt[c] + 1)
    /\ [][\A c \in Callers :
             modelCalls'[c] # modelCalls[c] =>
                 /\ modelCalls'[c] = modelCalls[c] + 1
                 /\ slotsTaken[c] = modelCalls[c] + 1
                 /\ slotsTaken[c] = attempt[c] + 1
                 /\ \E i \in 1..Len(recorded) : recorded[i] = now
                 /\ \E i \in 1..Len(requests) : requests[i] = now
                 /\ Cardinality({i \in 1..Len(recorded) : now - recorded[i] < 60000}) <= 3
                 /\ Len(requests) <= 3]_vars

\* four attempts failed: each took a slot and called the model once
C18_Witness ==
    \E c \in Callers :
        /\ pc[c] = "done"
        /\ outcome[c].state = "rejected"
        /\ modelCalls[c] = 4
        /\ slotsTaken[c] = 4

\* the instant at which c, suspended in waitForSlot, began its current wait
SuspendedAt(c) == wake[c] - slotWaits[c][Len(slotWaits[c])]

\* this step resumed c from its wait in waitForSlot and ran its next pass
Resumed(c) ==
    /\ pc[c] = "waitSlot"
    /\ slotsTaken'[c] # slotsTaken[c] \/ slotWaits'[c] # slotWaits[c]

\* as c is resumed, requests holds a timestamp recorded after c was suspended
TakenMeanwhile(c) == \E i \in 1..Len(requests) : requests[i] > SuspendedAt(c)

\* C20: when a suspended waitForSlot is resumed (never before its waitTime has
\* passed), the timestamp it waited for, the oldest at its suspension, is gone
\* from requests; it records its call in that pass unless a timestamp was
\* recorded while it waited.  So it suspends a second time only after another
\* caller has recorded a call in between, and never while it is the only caller
\* that ever recorded one.
C20_OneSuspension ==
    [][\A c \in Procs :
          Resumed(c) =>
              /\ now >= wake[c]
              /\ \A i \in 1..Len(requests') : requests'[i] > wake[c] - 60000
              /\ ~TakenMeanwhile(c) => pc'[c] = "acquired" /\ requests'[Len(requests')] = now
              /\ pc'[c] = "waitSlot" =>
                    /\ TakenMeanwhile(c)
                    /\ \E d \in Procs \ {c} : slotsTaken[d] > 0]_vars

\* the only caller so far was suspended once in its fourth attempt and has
\* recorded its call in the pass after waking
C20_Witness ==
    /\ pc["c1"] = "acquired"
    /\ attempt["c1"] = 3
    /\ Len(slotWaits["c1"]) = 1
    /\ slotsTaken["o1"] = 0
    /\ clientCalls["o1"] = 0
    /\ requests[Len(requests)] = now

\* this step suspended c in waitForSlot
SuspendedNow(c) == slotWaits'[c] # slotWaits[c]

\* C21: requests is always in non-decreasing order, with no timestamp later than
\* now; so when a pass of waitForSlot suspends its caller, the first element of
\* requests is the oldest timestamp left, it is less than 60000 ms old, the
\* waitTime is 60000 less its age, and every waitTime lies in 1..60000.
C21_OrderedWindow ==
    /\ [](\A i \in 1..Len(requests) :
             /\ requests[i] <= now
             /\ \A j \in i..Len(requests) : requests[i] <= requests[j])
    /\ [](\A c \in Procs : \A k \in 1..Len(slotWaits[c]) : slotWaits[c][k] \in 1..60000)
    /\ [][\A c \in Procs :
             SuspendedNow(c) =>
                 /\ requests' # <<>>
                 /\ \A i \in 1..Len(requests') : requests'[1] <= requests'[i]
                 /\ now - requests'[1] < 60000
                 /\ slotWaits'[c][Len(slotWaits'[c])] = 60000 - (now - requests'[1])
                 /\ wake'[c] = requests'[1] + 60000]_vars

\* a caller is suspended on three timestamps recorded at different instants, until
\* the oldest of them is 60000 ms old
C21_Witness ==
    \E c \in Procs :
        /\ pc[c] = "waitSlot"
        /\ Len(requests) = 3
        /\ requests[1] < requests[2]
        /\ requests[2] < requests[3]
        /\ requests[3] < now
        /\ wake[c] = requests[1] + 60000
        /\ slotWaits[c][Len(slotWaits[c])] = wake[c] - now

-----------------------------------------------------------------------------
(* Progress, checked under FairSpec *)

\* C19: a planTasks call that has begun eventually resolves or rejects, and a
\* caller suspended in waitForSlot eventually records its timestamp and returns.
C19_EventuallySettles ==
    /\ \A c \in Callers :
          (pc[c] \notin {"idle", "done"}) ~>
              (pc[c] = "done" /\ outcome[c].state \in {"resolved", "rejected"})
    /\ \A p \in Procs : (pc[p] = "waitSlot") ~> (pc[p] = "acquired")

\* both callers were suspended in the limiter, and the planTasks call settled
\* after its fourth attempt
C19_Witness ==
    /\ pc["c1"] = "done"
    /\ attempt["c1"] = 3
    /\ slotWaits["c1"] # <<>>
    /\ slotWaits["o1"] # <<>>
    /\ pc["o1"] = "idle"

-----------------------------------------------------------------------------
(* Properties of the validation, checked under SpecValidate *)

TwoDigits(n) == PadStart2(NumToString(n))

\* the 24-hour times HH:MM and H:MM with hours 0..23 and minutes 0..59
ValidTimes ==
    {h \o <<":">> \o TwoDigits(m) :
        h \in {NumToString(k) : k \in 0..23} \cup {TwoDigits(k) : k \in 0..23}, m \in 0..59}

\* the raw text is a JSON object whose field schedule holds an array
HasScheduleArray(text) ==
    /\ text.kind = "json"
    /\ text.value.t = "object"
    /\ text.value.schedule.t = "array"

Entries(text) == text.value.schedule.items

Missing(v) == v \in {Undefined, JsonNull, Str(<<>>)}

\* the entry has no task, time or reason, or a time that is no 24-hour time
Breaks(item) ==
    IF item = JsonNull THEN TRUE
    ELSE IF Missing(item.task) \/ Missing(item.time) \/ Missing(item.reason) THEN TRUE
    ELSE item.time.s \notin ValidTimes

Offending(text) == {i \in 1..Len(Entries(text)) : Breaks(Entries(text)[i])}

FirstOffending(text) == CHOOSE i \in Offending(text) : \A j \in Offending(text) : i <= j

Validated == vOut # NoResult

InvalidFormat == [cls |-> "GeminiError", code |-> "INVALID_FORMAT", isRetryable |-> TRUE]

ParseError == [cls |-> "GeminiError", code |-> "PARSE_ERROR", isRetryable |-> TRUE]

MinutesOf(time24) ==
    LET parts == SplitColon(time24) IN Number(parts[1]) * 60 + Number(parts[2])

Injective(f) == \A i, j \in DOMAIN f : f[i] = f[j] => i = j

\* out is the entries of items in the order p, without any further key
Reorders(p, items, out) ==
    \A i \in 1..Len(items) :
        /\ DOMAIN out[i] = {"task", "time", "reason"}
        /\ out[i].task = items[p[i]].task.s
        /\ out[i].reason = items[p[i]].reason.s
        /\ out[i].time = convertTo12Hour(items[p[i]].time.s)

\* p lists the entries by ascending time, equal times in their original order
AscendingStable(p, items) ==
    \A i, j \in 1..Len(items) :
        i < j =>
            \/ MinutesOf(items[p[i]].time.s) < MinutesOf(items[p[j]].time.s)
            \/ MinutesOf(items[p[i]].time.s) = MinutesOf(items[p[j]].time.s) /\ p[i] < p[j]

\* C10: for a response whose entries are all valid, the attempt returns the
\* entries permuted into ascending order of hours*60+minutes of their 24-hour
\* times, entries of equal time in their original order, each entry with the
\* keys task, time and reason only; the times 14:30, 06:00, 09:15 come out as
\* 6:00 AM, 9:15 AM, 2:30 PM.
C10_SortedStablePermutation ==
    /\ (Validated /\ HasScheduleArray(vIn) /\ Offending(vIn) = {}) =>
          /\ vOut.ok
          /\ DOMAIN vOut.value = 1..Len(Entries(vIn))
          /\ \E p \in [1..Len(Entries(vIn)) -> 1..Len(Entries(vIn))] :
                /\ Injective(p)
                /\ Reorders(p, Entries(vIn), vOut.value)
                /\ AscendingStable(p, Entries(vIn))
    /\ (Validated /\ vIn.kind = "json" /\ vIn.value = UnsortedSchedule) =>
          vOut = [ok |-> TRUE, value |-> SortedSchedule]

\* three valid entries, not in order and two of them at the same time, were sorted
C10_Witness ==
    /\ Validated
    /\ vOut.ok
    /\ HasScheduleArray(vIn)
    /\ Entries(vIn) = <<GoodItem("A", C("1", "4", ":", "3", "0")),
                        GoodItem("B", <<"9", ":", "1", "5">>),
                        GoodItem("A", C("0", "9", ":", "1", "5"))>>
    /\ vOut.value[1].task = <<"B">>
    /\ vOut.value[2].task = <<"A">>

\* C15 as stated: a response that parses as JSON and carries no array in a field
\* schedule makes the attempt fail with the GeminiError INVALID_FORMAT.
C15_AlwaysInvalidFormat ==
    (Validated /\ vIn.kind = "json" /\ ~HasScheduleArray(vIn)) =>
        vOut = [ok |-> FALSE, error |-> InvalidFormat]

\* C15 as amended: a response that parses as JSON and carries no array in a field
\* schedule makes the attempt fail with the GeminiError INVALID_FORMAT, except
\* the JSON value null, which makes it fail with the GeminiError PARSE_ERROR.
C15_ParseErrorOnNull ==
    (Validated /\ vIn.kind = "json" /\ ~HasScheduleArray(vIn)) =>
        vOut = [ok |-> FALSE,
                error |-> IF vIn.value = JsonNull THEN ParseError ELSE InvalidFormat]

\* the response null has been through the validation
C15_Witness ==
    /\ Validated
    /\ vIn.kind = "json"
    /\ vIn.value = JsonNull
    /\ vOut = [ok |-> FALSE, error |-> ParseError]

-----------------------------------------------------------------------------
(* convertTo12Hour on its own: vIn is a time the validation accepts, given   *)
(* with its hours and minutes, and vOut is what convertTo12Hour makes of it. *)

\* n as two decimal digits, for n in 0..99
TwoDigitText(n) == <<Digits[(n \div 10) + 1], Digits[(n % 10) + 1]>>

\* the texts HH:MM for hours 0..23 and H:MM for hours 0..9, minutes 0..59
TimeInputs ==
    {[hours |-> h, minutes |-> m, text |-> TwoDigitText(h) \o <<":">> \o TwoDigitText(m)] :
        h \in 0..23, m \in 0..59}
    \cup {[hours |-> h, minutes |-> m, text |-> <<Digits[h + 1], ":">> \o TwoDigitText(m)] :
        h \in 0..9, m \in 0..59}

InitConvert ==
    /\ now = 0
    /\ requests = <<>>
    /\ recorded = <<>>
    /\ pc = [c \in Procs |-> "idle"]
    /\ tasks = [c \in Procs |-> <<>>]
    /\ attempt = [c \in Procs |-> 0]
    /\ wake = [c \in Procs |-> 0]
    /\ lastError = [c \in Procs |-> NoError]
    /\ lastReply = [c \in Procs |-> NoReply]
    /\ outcome = [c \in Procs |-> Pending]
    /\ modelCalls = [c \in Procs |-> 0]
    /\ slotsTaken = [c \in Procs |-> 0]
    /\ delays = [c \in Procs |-> <<>>]
    /\ slotWaits = [c \in Procs |-> <<>>]
    /\ clientCalls = [o \in Clients |-> 0]
    /\ lateSteps = 0
    /\ vIn \in TimeInputs
    /\ vOut = NoResult
    /\ InitUI

Convert ==
    /\ vOut = NoResult
    /\ timeRegexTest(vIn.text)
    /\ vOut' = Return(convertTo12Hour(vIn.text))
    /\ UNCHANGED <<pipeVars, vIn, uiVars>>

NextConvert == Convert

SpecConvert == InitConvert /\ [][NextConvert]_vars

\* the hour of the 12-hour clock for the hour h of the 24-hour clock
ClockHour(h) == IF h \in {0, 12} THEN 12 ELSE IF h >= 13 THEN h - 12 ELSE h

ClockHourText(h) ==
    IF ClockHour(h) < 10 THEN <<Digits[ClockHour(h) + 1]>> ELSE TwoDigitText(ClockHour(h))

Suffix(h) == IF h <= 11 THEN <<"A", "M">> ELSE <<"P", "M">>

\* C11: for a time h:m that the validation accepts, convertTo12Hour yields the
\* hour 12 for h = 0 and h = 12, h - 12 for h in 13..23 and h otherwise, the
\* minutes as two digits, and AM for h in 0..11, PM for h in 12..23; so 00:00
\* gives 12:00 AM, 12:00 gives 12:00 PM, 23:59 gives 11:59 PM, 09:00 gives 9:00 AM.
C11_TwelveHourClock ==
    /\ vOut # NoResult =>
          vOut = [ok |-> TRUE,
                  value |-> ClockHourText(vIn.hours) \o <<":">> \o TwoDigitText(vIn.minutes)
                                \o <<" ">> \o Suffix(vIn.hours)]
    /\ (vOut # NoResult /\ vIn.text = <<"0", "0", ":", "0", "0">>) =>
          vOut.value = <<"1", "2", ":", "0", "0", " ", "A", "M">>
    /\ (vOut # NoResult /\ vIn.text = <<"1", "2", ":", "0", "0">>) =>
          vOut.value = <<"1", "2", ":", "0", "0", " ", "P", "M">>
    /\ (vOut # NoResult /\ vIn.text = <<"2", "3", ":", "5", "9">>) =>
          vOut.value = <<"1", "1", ":", "5", "9", " ", "P", "M">>
    /\ (vOut # NoResult /\ vIn.text = <<"0", "9", ":", "0", "0">>) =>
          vOut.value = <<"9", ":", "0", "0", " ", "A", "M">>

\* midnight has been converted
C11_Witness ==
    /\ vOut # NoResult
    /\ vIn.hours = 0
    /\ vIn.minutes = 5
    /\ vOut.value = <<"1", "2", ":", "0", "5", " ", "A", "M">>

-----------------------------------------------------------------------------
(* TaskPlanner (Header.tsx): the state the Retry control depends on.  React  *)
(* renders again after every handler, so each handler sees the current state *)
(* and a control can be used only while it is rendered.  A planTasks call    *)
(* the component started is kept in mutations by its attempt index: it moves *)
(* to its next attempt, resolves or rejects as the loop of planTasks does.   *)

\* planMutation.isPending: the call started last is still in flight
isPending == \E i \in 1..Len(mutations) : mutations[i].latest

\* planMutation.mutate(tasks): planTasks is called, and this call is now the latest
mutate(ms) ==
    Append([i \in 1..Len(ms) |-> [ms[i] EXCEPT !.latest = FALSE]], [attempt |-> 0, latest |-> TRUE])

\* the calls in flight without call i
Settle(ms, i) == SubSeq(ms, 1, i - 1) \o SubSeq(ms, i + 1, Len(ms))

\* form.onSubmit with a task text
onSubmit ==
    /\ plannerTasks < MaxPlannerTasks
    /\ plannerTasks' = plannerTasks + 1
    /\ plannerError' = "null"
    /\ UNCHANGED <<retryCount, mutations, manualRetries, pipeVars, vIn, vOut>>

\* handleEdit
handleEdit ==
    /\ plannerTasks > 0
    /\ plannerError' = "null"
    /\ UNCHANGED <<plannerTasks, retryCount, mutations, manualRetries, pipeVars, vIn, vOut>>

\* handleSaveEdit; blank says whether the edited text is empty
handleSaveEdit(blank) ==
    /\ plannerTasks > 0
    /\ plannerError' = IF blank THEN "emptyDescription" ELSE "null"
    /\ UNCHANGED <<plannerTasks, retryCount, mutations, manualRetries, pipeVars, vIn, vOut>>

\* handleRemove
handleRemove ==
    /\ plannerTasks > 0
    /\ plannerTasks' = plannerTasks - 1
    /\ plannerError' = "null"
    /\ UNCHANGED <<retryCount, mutations, manualRetries, pipeVars, vIn, vOut>>

\* the Plan button: rendered with tasks in the list, disabled while isPending
PlanClick ==
    /\ plannerTasks > 0
    /\ ~isPending
    /\ Len(mutations) < MaxInFlight
    /\ retryCount' = 0
    /\ manualRetries' = 0
    /\ mutations' = mutate(mutations)
    /\ UNCHANGED <<plannerTasks, plannerError, pipeVars, vIn, vOut>>

\* the Retry button, rendered when error && retryCount < MAX_RETRIES: handleRetry
handleRetry ==
    /\ plannerError # "null"
    /\ retryCount < MAX_RETRIES
    /\ Len(mutations) < MaxInFlight
    /\ IF retryCount < MAX_RETRIES
       THEN /\ retryCount' = retryCount + 1
            /\ manualRetries' = manualRetries + 1
            /\ mutations' = mutate(mutations)
            /\ UNCHANGED plannerError
       ELSE /\ plannerError' = "maximumReached"
            /\ UNCHANGED <<retryCount, manualRetries, mutations>>
    /\ UNCHANGED <<plannerTasks, pipeVars, vIn, vOut>>

\* call i of planTasks fails an attempt with a retryable error before its last
\* attempt, sleeps and goes on to the next attempt
AttemptRetried(i) ==
    /\ i \in 1..Len(mutations)
    /\ ~LastAttempt(mutations[i].attempt)
    /\ LoopCondition(mutations[i].attempt + 1)
    /\ mutations' = [mutations EXCEPT ![i].attempt = @ + 1]
    /\ UNCHANGED <<plannerTasks, plannerError, retryCount, manualRetries, pipeVars, vIn, vOut>>

\* call i of planTasks resolves: planMutation.onSuccess
onSuccess(i) ==
    /\ i \in 1..Len(mutations)
    /\ mutations' = Settle(mutations, i)
    /\ plannerError' = "null"
    /\ retryCount' = 0
    /\ manualRetries' = 0
    /\ UNCHANGED <<plannerTasks, pipeVars, vIn, vOut>>

\* call i of planTasks rejects (no tasks, a non-retryable error, or a failure of
\* its last attempt): planMutation.onError
onError(i) ==
    /\ i \in 1..Len(mutations)
    /\ mutations' = Settle(mutations, i)
    /\ plannerError' = "planFailed"
    /\ UNCHANGED <<plannerTasks, retryCount, manualRetries, pipeVars, vIn, vOut>>

NextUI ==
    \/ onSubmit
    \/ handleEdit
    \/ \E blank \in BOOLEAN : handleSaveEdit(blank)
    \/ handleRemove
    \/ PlanClick
    \/ handleRetry
    \/ \E i \in 1..MaxInFlight : AttemptRetried(i)
    \/ \E i \in 1..MaxInFlight : onSuccess(i)
    \/ \E i \in 1..MaxInFlight : onError(i)

SpecUI == Init /\ [][NextUI]_vars

\* a planTasks call of the component has just been started
CallStarted == Len(mutations') = Len(mutations) + 1

\* a planTasks call in flight has moved on, none started and none settled
OrchestratorStep == Len(mutations') = Len(mutations) /\ mutations' # mutations

\* C13: retryCount stays within 0..3; a call started by handleRetry is started
\* with retryCount < 3 and raises retryCount by exactly one; retryCount changes
\* only so or by a reset to 0; at most 3 calls are started by handleRetry between
\* two resets; and planTasks moving to its next attempt depends on the attempt
\* index alone and leaves retryCount as it is.
C13_ManualRetryBounded ==
    /\ [](retryCount \in 0..3 /\ manualRetries \in 0..3)
    /\ [][manualRetries' = manualRetries + 1 =>
             retryCount < 3 /\ retryCount' = retryCount + 1 /\ CallStarted]_vars
    /\ [][CallStarted =>
             \/ retryCount' = 0 /\ manualRetries' = 0
             \/ retryCount < 3 /\ retryCount' = retryCount + 1
                   /\ manualRetries' = manualRetries + 1]_vars
    /\ [][retryCount' # retryCount =>
             retryCount' = 0 \/ (retryCount' = retryCount + 1 /\ CallStarted)]_vars
    /\ [][OrchestratorStep => retryCount' = retryCount]_vars
    /\ [](\A i \in 1..Len(mutations) :
             (ENABLED AttemptRetried(i)) <=> mutations[i].attempt < 3)

\* three calls were started by handleRetry since the last reset, an error is
\* shown, and the Retry button is no longer rendered
C13_Witness ==
    /\ retryCount = 3
    /\ manualRetries = 3
    /\ plannerError = "planFailed"
    /\ mutations = <<>>
    /\ ~ENABLED handleRetry


====
